---- MODULE Spec2Model ----
(***************************************************************************)
(* A model of the array-backed binary heap of src/src/heap.rs: the         *)
(* ordering strategies, the repair primitives (heapify_in_place,           *)
(* heapify_down, heapify_up, is_heap) and the Heap container               *)
(* (construction, insert, remove).  Indices are the 0-based indices of the *)
(* source; a sequence s stores the element of index i at s[i + 1].         *)
(***************************************************************************)
EXTENDS Integers, Sequences, FiniteSets

\* ---------------------------------------------------------------- bounds
MaxLen == 5
MaxVal == 4

\* Bounds of the deeper, narrower heaps of SpecDeep.
DeepLen == 6
DeepVal == 2

\* Bounds of the heaps of SpecKeyed: elements 0..KeyVal, two of each rank.
KeyLen == 5
KeyVal == 3

\* Bounds of the input of main: the number of symbols and their frequencies.
MaxLeaves == 4
MaxFreq == 3

Values == 0..MaxVal
Orders == {"min", "max"}

RECURSIVE SeqsOfLen(_)
SeqsOfLen(n) ==
    IF n = 0 THEN {<<>>}
    ELSE {Append(s, x) : s \in SeqsOfLen(n - 1), x \in Values}

Vecs == UNION {SeqsOfLen(n) : n \in 0..MaxLen}

RECURSIVE DeepSeqsOfLen(_)
DeepSeqsOfLen(n) ==
    IF n = 0 THEN {<<>>}
    ELSE {Append(s, x) : s \in DeepSeqsOfLen(n - 1), x \in 0..DeepVal}

DeepVecs == UNION {DeepSeqsOfLen(n) : n \in 0..DeepLen}

RECURSIVE KeySeqsOfLen(_)
KeySeqsOfLen(n) ==
    IF n = 0 THEN {<<>>}
    ELSE {Append(s, x) : s \in KeySeqsOfLen(n - 1), x \in 0..KeyVal}

KeyVecs == UNION {KeySeqsOfLen(n) : n \in 0..KeyLen}

\* The frequencies of n >= 1 symbols, in the order the map iterates them.
RECURSIVE LeafSeqsOfLen(_)
LeafSeqsOfLen(n) ==
    IF n = 0 THEN {<<>>}
    ELSE {Append(s, x) : s \in LeafSeqsOfLen(n - 1), x \in 1..MaxFreq}

LeafVecs == UNION {LeafSeqsOfLen(n) : n \in 1..MaxLeaves}

\* ------------------------------------------------------ ordering strategy
\* The rank of an element whose Ord compares one field only, as Symbol is
\* compared by its frequency: elements 2k and 2k+1 are distinguishable and of
\* equal rank.
key(v) == v \div 2

\* MinOrder and MaxOrder over such an element type.
KeyOrders == {"min_key", "max_key"}

\* MinOrder: left < right.  MaxOrder: left > right.
left_can_go_above(o, left, right) ==
    CASE o = "min" -> left < right
      [] o = "max" -> left > right
      [] o = "min_key" -> key(left) < key(right)
      [] o = "max_key" -> key(left) > key(right)

\* ------------------------------------------------------ repair primitives
\* Mutant of swap: the second store is lost, so one element is duplicated.
swap_overwrite(data, i, j) ==
    [data EXCEPT ![i + 1] = data[j + 1]]

\* slice::swap(i, j)
swap(data, i, j) ==
    [data EXCEPT ![i + 1] = data[j + 1], ![j + 1] = data[i + 1]]

\* Mutant of heapify_down: the right child is never considered.
RECURSIVE heapify_down_left_only(_, _, _)
heapify_down_left_only(data, top_index, o) ==
    LET left_child_index == 2 * (top_index + 1) - 1
        highest_index ==
              IF left_child_index < Len(data)
                 /\ left_can_go_above(o, data[left_child_index + 1], data[top_index + 1])
              THEN left_child_index ELSE top_index
    IN  IF highest_index # top_index
        THEN heapify_down_left_only(
                 [data EXCEPT ![top_index + 1] = data[highest_index + 1],
                              ![highest_index + 1] = data[top_index + 1]],
                 highest_index, o)
        ELSE data

\* Mutant of heapify_down: a child also goes up when it is equal in rank.
RECURSIVE heapify_down_ties(_, _, _)
heapify_down_ties(data, top_index, o) ==
    LET right_child_index == 2 * (top_index + 1)
        left_child_index == right_child_index - 1
        h1 == IF left_child_index < Len(data)
                 /\ ~left_can_go_above(o, data[top_index + 1], data[left_child_index + 1])
              THEN left_child_index ELSE top_index
        highest_index ==
              IF right_child_index < Len(data)
                 /\ ~left_can_go_above(o, data[h1 + 1], data[right_child_index + 1])
              THEN right_child_index ELSE h1
    IN  IF highest_index # top_index
        THEN heapify_down_ties(swap(data, top_index, highest_index), highest_index, o)
        ELSE data

RECURSIVE heapify_down(_, _, _)
heapify_down(data, top_index, o) ==
    LET right_child_index == 2 * (top_index + 1)
        left_child_index == right_child_index - 1
        h1 == IF left_child_index < Len(data)
                 /\ left_can_go_above(o, data[left_child_index + 1], data[top_index + 1])
              THEN left_child_index ELSE top_index
        highest_index ==
              IF right_child_index < Len(data)
                 /\ left_can_go_above(o, data[right_child_index + 1], data[h1 + 1])
              THEN right_child_index ELSE h1
    IN  IF highest_index # top_index
        THEN heapify_down(swap(data, top_index, highest_index), highest_index, o)
        ELSE data

\* The loop of heapify_in_place: i runs over (0..n).rev(), that is n-1 down to 0.
RECURSIVE heapify_rev(_, _, _)
heapify_rev(data, n, o) ==
    IF n = 0 THEN data
    ELSE heapify_rev(heapify_down(data, n - 1, o), n - 1, o)

\* Mutant of heapify_in_place: the loop starts one parent too low.
heapify_in_place_short(data, o) ==
    IF Len(data) < 2 THEN data ELSE heapify_rev(data, Len(data) \div 2 - 1, o)

heapify_in_place(data, o) == heapify_rev(data, Len(data) \div 2, o)

\* Mutant of heapify_up: an if instead of a while, at most one swap.
heapify_up_once(data, pos_index, o) ==
    IF pos_index > 0
    THEN LET parent_index == (pos_index - 1) \div 2
         IN  IF left_can_go_above(o, data[parent_index + 1], data[pos_index + 1])
             THEN data
             ELSE swap(data, parent_index, pos_index)
    ELSE data

RECURSIVE heapify_up(_, _, _)
heapify_up(data, pos_index, o) ==
    IF pos_index > 0
    THEN LET parent_index == (pos_index - 1) \div 2
         IN  IF left_can_go_above(o, data[parent_index + 1], data[pos_index + 1])
             THEN data
             ELSE heapify_up(swap(data, parent_index, pos_index), parent_index, o)
    ELSE data

\* The inner while loop of is_heap: the walk from pos_index up to the root.
RECURSIVE is_heap_walk(_, _, _)
is_heap_walk(values, pos_index, o) ==
    IF pos_index > 0
    THEN LET parent_index == (pos_index - 1) \div 2
         IN  IF ~left_can_go_above(o, values[parent_index + 1], values[pos_index + 1])
             THEN FALSE
             ELSE is_heap_walk(values, parent_index, o)
    ELSE TRUE

is_heap(values, o) ==
    \A leaf_index \in ((Len(values) + 1) \div 2)..(Len(values) - 1) :
        is_heap_walk(values, leaf_index, o)

\* ------------------------------------------------------------- container
from_vec_and_cmp(data, o) == heapify_in_place(data, o)

\* debug_assert!(is_heap(..)) then Self { data, order }
unsafe_from_heap_and_cmp(data, o) == data

\* Option<Heap>: <<>> is None, <<d>> is Some(heap with array d)
try_from_heap_and_cmp(data, o) ==
    IF is_heap(data, o) THEN <<unsafe_from_heap_and_cmp(data, o)>> ELSE <<>>

to_values(data) == data

\* Mutant of insert: the new element is pushed and never sifted up.
insert_no_sift(data, value, o) == Append(data, value)

insert(data, value, o) ==
    LET new_node_index == Len(data)
    IN  heapify_up(Append(data, value), new_node_index, o)

\* Mutant of swap_remove: the last element is dropped instead of moved.
swap_remove_pop(data, index) ==
    SubSeq(data, 1, Len(data) - 1)

\* Mutant of extend: the items are pushed without insert's sift-up.
extend_push(data, items, o) == data \o items

\* Extend::extend: insert every item of the iterator, in its order.  The
\* array after each insert is bound as a value, so it is computed once.
RECURSIVE extend(_, _, _)
extend(data, items, o) ==
    IF items = <<>> THEN data
    ELSE CHOOSE r \in {extend(d, Tail(items), o) : d \in {insert(data, Head(items), o)}} : TRUE

\* Vec::swap_remove(index) for index < len: the last element takes the place
\* of the removed one and the vector shrinks by one.
swap_remove(data, index) ==
    LET last == Len(data) - 1
    IN  SubSeq([data EXCEPT ![index + 1] = data[last + 1]], 1, last)

\* Mutant of remove: an index out of range is clamped to the last element.
remove_clamped(data, index, o) ==
    IF data = <<>>
    THEN [data |-> data, ret |-> <<>>, outcome |-> "ok"]
    ELSE LET i == IF index >= Len(data) THEN Len(data) - 1 ELSE index
             ret == data[i + 1]
             d == swap_remove(data, i)
         IN  IF d # <<>> /\ i < Len(d)
             THEN IF left_can_go_above(o, d[i + 1], ret)
                  THEN [data |-> heapify_up(d, i, o), ret |-> <<ret>>, outcome |-> "ok"]
                  ELSE IF left_can_go_above(o, ret, d[i + 1])
                  THEN [data |-> heapify_down(d, i, o), ret |-> <<ret>>, outcome |-> "ok"]
                  ELSE [data |-> d, ret |-> <<ret>>, outcome |-> "ok"]
             ELSE [data |-> d, ret |-> <<ret>>, outcome |-> "ok"]

\* Mutant of remove: the replacement is sifted up unless the removed value
\* dominates it, so an equal-ranked replacement is repaired too.
remove_up_on_tie(data, index, o) ==
    IF index >= Len(data)
    THEN [data |-> data, ret |-> <<>>, outcome |-> "panic"]
    ELSE LET ret == data[index + 1]
             d == swap_remove(data, index)
         IN  IF d # <<>>
             THEN IF index >= Len(d)
                  THEN [data |-> d, ret |-> <<>>, outcome |-> "panic"]
                  ELSE IF ~left_can_go_above(o, ret, d[index + 1])
                  THEN [data |-> heapify_up(d, index, o), ret |-> <<ret>>, outcome |-> "ok"]
                  ELSE [data |-> heapify_down(d, index, o), ret |-> <<ret>>, outcome |-> "ok"]
             ELSE [data |-> d, ret |-> <<ret>>, outcome |-> "ok"]

\* Mutant of remove: the replacement is always sifted down.
remove_always_down(data, index, o) ==
    IF index >= Len(data)
    THEN [data |-> data, ret |-> <<>>, outcome |-> "panic"]
    ELSE LET ret == data[index + 1]
             d == swap_remove(data, index)
         IN  IF d # <<>>
             THEN IF index >= Len(d)
                  THEN [data |-> d, ret |-> <<>>, outcome |-> "panic"]
                  ELSE [data |-> heapify_down(d, index, o), ret |-> <<ret>>, outcome |-> "ok"]
             ELSE [data |-> d, ret |-> <<ret>>, outcome |-> "ok"]

\* The result of remove: the array afterwards, the returned value (<<>> when
\* the call panics) and how the call ended.
remove(data, index, o) ==
    IF index >= Len(data)
    THEN \* swap_remove panics on an index out of bounds, before any change
         [data |-> data, ret |-> <<>>, outcome |-> "panic"]
    ELSE LET ret == data[index + 1]
             d == swap_remove(data, index)
         IN  IF d # <<>>
             THEN IF index >= Len(d)
                  THEN \* self.data[index] is out of bounds: panic after swap_remove
                       [data |-> d, ret |-> <<>>, outcome |-> "panic"]
                  ELSE IF left_can_go_above(o, d[index + 1], ret)
                  THEN [data |-> heapify_up(d, index, o), ret |-> <<ret>>, outcome |-> "ok"]
                  ELSE IF left_can_go_above(o, ret, d[index + 1])
                  THEN [data |-> heapify_down(d, index, o), ret |-> <<ret>>, outcome |-> "ok"]
                  ELSE [data |-> d, ret |-> <<ret>>, outcome |-> "ok"]
             ELSE [data |-> d, ret |-> <<ret>>, outcome |-> "ok"]

\* ------------------------------------------------------------------ state
VARIABLES
    order,    \* Heap.order, fixed for the heap's lifetime
    data,     \* Heap.data
    op,       \* the last operation called
    arg,      \* its argument: the index (remove), the value (insert), else 0
    pre,      \* the array before the call (the input vector for constructors)
    ret,      \* the value remove returned: <<v>>, or <<>> when nothing was returned
    outcome,  \* "ok", or "panic" when the call panicked
    checked,  \* the Option<Heap> try_from_heap_and_cmp returned
    src,      \* the array when the current run of remove(0) calls began
    out,      \* the values returned by the current run of remove(0) calls
    rt,       \* <<array before, index>> of v = remove(index) when the last call
              \* is the insert(v) that follows it, else NoRoundTrip
    ledger,   \* the multiset the calls account for: the constructor's input,
              \* plus every value inserted, minus every value remove returned
    pc,       \* the position of main: "none" when main is not the program run
    leaves,   \* main: the frequencies of the leaf nodes given to extend
    left,     \* main: the frequency of the node bound to left
    right,    \* main: the frequency of the node bound to right
    iter      \* main: the number of completed iterations of the while loop

hvars == <<pc, leaves, left, right, iter>>

vars == <<order, data, op, arg, pre, ret, outcome, checked, src, out, rt, ledger,
          pc, leaves, left, right, iter>>

\* Multisets as functions from the elements present to their positive counts.
EmptyBag == [x \in {} |-> 0]

BagOfSeq(s) ==
    [x \in {s[k] : k \in DOMAIN s} |-> Cardinality({k \in DOMAIN s : s[k] = x})]

BagAdd(b, x) ==
    IF x \in DOMAIN b THEN [b EXCEPT ![x] = @ + 1]
    ELSE [y \in DOMAIN b \cup {x} |-> IF y = x THEN 1 ELSE b[y]]

BagDel(b, x) ==
    IF b[x] = 1 THEN [y \in DOMAIN b \ {x} |-> b[y]]
    ELSE [b EXCEPT ![x] = @ - 1]

RECURSIVE BagSizeOver(_, _)
BagSizeOver(b, S) ==
    IF S = {} THEN 0
    ELSE LET x == CHOOSE y \in S : TRUE IN b[x] + BagSizeOver(b, S \ {x})

BagSize(b) == BagSizeOver(b, DOMAIN b)

NoRoundTrip == << <<>>, -1 >>

\* Heap::new() / with_capacity(): an empty heap of either canonical order.
Init ==
    /\ order \in Orders
    /\ data = <<>>
    /\ op = "new"
    /\ arg = 0
    /\ pre = <<>>
    /\ ret = <<>>
    /\ outcome = "ok"
    /\ checked = <<>>
    /\ src = <<>>
    /\ out = <<>>
    /\ rt = NoRoundTrip
    /\ ledger = EmptyBag
    /\ pc = "none" /\ leaves = <<>> /\ left = 0 /\ right = 0 /\ iter = 0

\* A panic unwinds out of the program: nothing is called after it.
Running == outcome = "ok"

\* A constructor: it makes the heap, so it is called before any other operation.
FromVecAndCmp(v) ==
    /\ op = "new"
    /\ data' = from_vec_and_cmp(v, order)
    /\ op' = "from_vec"
    /\ arg' = 0
    /\ pre' = v
    /\ ret' = <<>>
    /\ src' = data'
    /\ out' = <<>>
    /\ rt' = NoRoundTrip
    /\ ledger' = BagOfSeq(v)
    /\ UNCHANGED <<order, outcome, checked>>

Insert(value) ==
    /\ Running
    /\ Len(data) < MaxLen
    /\ data' = insert(data, value, order)
    /\ op' = "insert"
    /\ arg' = value
    /\ pre' = data
    /\ ret' = <<>>
    /\ src' = data'
    /\ out' = <<>>
    /\ rt' = IF op = "remove" /\ ret = <<value>> THEN <<pre, arg>> ELSE NoRoundTrip
    /\ ledger' = BagAdd(ledger, value)
    /\ UNCHANGED <<order, outcome, checked>>

Remove(index) ==
    /\ Running
    /\ LET r == remove(data, index, order)
       IN  /\ data' = r.data
           /\ ret' = r.ret
           /\ outcome' = r.outcome
           /\ IF index = 0 /\ r.outcome = "ok"
              THEN /\ out' = out \o r.ret
                   /\ src' = src
              ELSE /\ out' = <<>>
                   /\ src' = r.data
           /\ ledger' = IF r.ret # <<>> THEN BagDel(ledger, r.ret[1]) ELSE ledger
    /\ op' = "remove"
    /\ arg' = index
    /\ pre' = data
    /\ rt' = NoRoundTrip
    /\ UNCHANGED <<order, checked>>

\* A constructor as well: called on a candidate vector, before anything else.
TryFromHeapAndCmp(v) ==
    /\ op = "new"
    /\ checked' = try_from_heap_and_cmp(v, order)
    /\ op' = "try_from"
    /\ pre' = v
    /\ UNCHANGED <<order, data, arg, ret, outcome, src, out, rt, ledger>>

Next ==
    \/ op = "new" /\ (\E v \in Vecs : FromVecAndCmp(v)) /\ UNCHANGED hvars
    \/ (\E value \in Values : Insert(value)) /\ UNCHANGED hvars
    \/ (\E index \in 0..MaxLen : Remove(index)) /\ UNCHANGED hvars

Spec == Init /\ [][Next]_vars

\* The same program over elements that are equal in rank and distinguishable.
InitKeyed ==
    /\ order \in KeyOrders
    /\ data = <<>>
    /\ op = "new"
    /\ arg = 0
    /\ pre = <<>>
    /\ ret = <<>>
    /\ outcome = "ok"
    /\ checked = <<>>
    /\ src = <<>>
    /\ out = <<>>
    /\ rt = NoRoundTrip
    /\ ledger = EmptyBag
    /\ pc = "none" /\ leaves = <<>> /\ left = 0 /\ right = 0 /\ iter = 0

NextKeyed ==
    \/ op = "new" /\ (\E v \in KeyVecs : FromVecAndCmp(v)) /\ UNCHANGED hvars
    \/ (\E value \in 0..KeyVal : Insert(value)) /\ UNCHANGED hvars
    \/ (\E index \in 0..KeyLen : Remove(index)) /\ UNCHANGED hvars

SpecKeyed == InitKeyed /\ [][NextKeyed]_vars

\* The same operations on heaps of three levels, built from fewer values.
NextDeep ==
    \/ op = "new" /\ (\E v \in DeepVecs : FromVecAndCmp(v)) /\ UNCHANGED hvars
    \/ (\E value \in 0..DeepVal : Insert(value)) /\ UNCHANGED hvars
    \/ (\E index \in 0..DeepLen : Remove(index)) /\ UNCHANGED hvars

SpecDeep == Init /\ [][NextDeep]_vars

\* Checked construction, applied to every candidate vector.
NextChecked ==
    op = "new" /\ (\E v \in Vecs : TryFromHeapAndCmp(v)) /\ UNCHANGED hvars

\* ---------------------------------------------------------------- main.rs
\* The Huffman loop of main over a MinHeap of nodes compared by frequency;
\* a node is modelled by its frequency.
InitMain ==
    /\ order = "min"
    /\ data = <<>>
    /\ op = "new"
    /\ arg = 0
    /\ pre = <<>>
    /\ ret = <<>>
    /\ outcome = "ok"
    /\ checked = <<>>
    /\ src = <<>>
    /\ out = <<>>
    /\ rt = NoRoundTrip
    /\ ledger = EmptyBag
    /\ pc = "start"
    /\ leaves = <<>>
    /\ left = 0 /\ right = 0 /\ iter = 0

\* The frequencies of the symbols are collected; the map yields them in any order.
MainCollect(fs) ==
    /\ pc = "start"
    /\ leaves' = fs
    /\ pc' = "extend"
    /\ UNCHANGED <<order, data, op, arg, pre, ret, outcome, checked, src, out, rt,
                   ledger, left, right, iter>>

\* code_heap.extend(leaf nodes)
MainExtend ==
    /\ pc = "extend"
    /\ data' = extend(data, leaves, order)
    /\ op' = "extend"
    /\ pre' = data
    /\ src' = data'
    /\ ledger' = BagOfSeq(leaves)
    /\ pc' = "while"
    /\ UNCHANGED <<order, arg, ret, outcome, checked, out, rt, leaves, left, right, iter>>

\* while code_heap.len() > 1 { let left = code_heap.remove(0);
MainRemoveLeft ==
    /\ pc = "while"
    /\ Len(data) > 1
    /\ Remove(0)
    /\ left' = IF ret' # <<>> THEN ret'[1] ELSE left
    /\ pc' = IF outcome' = "ok" THEN "right" ELSE "panicked"
    /\ UNCHANGED <<leaves, right, iter>>

\* let right = code_heap.remove(0);
MainRemoveRight ==
    /\ pc = "right"
    /\ Remove(0)
    /\ right' = IF ret' # <<>> THEN ret'[1] ELSE right
    /\ pc' = IF outcome' = "ok" THEN "insert" ELSE "panicked"
    /\ UNCHANGED <<leaves, left, iter>>

\* code_heap.insert(combined_node) }
MainInsertCombined ==
    /\ pc = "insert"
    /\ Insert(left + right)
    /\ iter' = iter + 1
    /\ pc' = "while"
    /\ UNCHANGED <<leaves, left, right>>

\* The loop is left; let root = code_heap.remove(0);
MainRemoveRoot ==
    /\ pc = "while"
    /\ Len(data) <= 1
    /\ Remove(0)
    /\ pc' = IF outcome' = "ok" THEN "done" ELSE "panicked"
    /\ UNCHANGED <<leaves, left, right, iter>>

NextMain ==
    \/ pc = "start" /\ \E fs \in LeafVecs : MainCollect(fs)
    \/ MainExtend
    \/ MainRemoveLeft
    \/ MainRemoveRight
    \/ MainInsertCombined
    \/ MainRemoveRoot

SpecMain == InitMain /\ [][NextMain]_vars

\* main is one thread that runs until it returns or panics.
SpecMainFair == SpecMain /\ WF_vars(NextMain)

SpecChecked == Init /\ [][NextChecked]_vars

\* ------------------------------------------------------------- properties
parent(i) == (i - 1) \div 2

\* The heap property of the data model: no child dominates its parent.
NoChildDominates(d, o) ==
    \A i \in 1..(Len(d) - 1) : ~left_can_go_above(o, d[i + 1], d[parent(i) + 1])

Count(s, x) == Cardinality({k \in DOMAIN s : s[k] = x})

SameMultiset(a, b) ==
    /\ Len(a) = Len(b)
    /\ \A x \in Values : Count(a, x) = Count(b, x)

\* No element of s dominates x.
Undominated(x, s, o) == \A k \in DOMAIN s : ~left_can_go_above(o, s[k], x)

\* Non-decreasing under MinOrder, non-increasing under MaxOrder.
InExtractOrder(s, o) ==
    \A k \in 1..(Len(s) - 1) : ~left_can_go_above(o, s[k + 1], s[k])

HasEqualPair(s) == \E j, k \in DOMAIN s : j # k /\ s[j] = s[k]

Completed == outcome = "ok"

\* C1: after every insert and every remove with an index in range that
\* completes, no element at an index i > 0 dominates the element at its
\* parent (i-1)/2, for MinOrder and MaxOrder, equal-ranked elements included.
C1_HeapPropertyClosure ==
    (op \in {"insert", "remove"} /\ Completed) => NoChildDominates(data, order)

\* C1 witness: an interior removal completed on a heap with equal-ranked
\* elements, leaving at least three elements.
C1_Witness ==
    /\ op = "remove" /\ Completed /\ arg > 0
    /\ Len(data) >= 3 /\ HasEqualPair(data)
    /\ data # swap_remove(pre, arg)

\* C2: remove(index) with 0 <= index < len (index = len-1 included) completes,
\* returns the value that was stored at index and leaves len one smaller.
C2_RemovalCorrect ==
    (op = "remove" /\ arg < Len(pre)) =>
        /\ Completed
        /\ ret = <<pre[arg + 1]>>
        /\ Len(data) = Len(pre) - 1

\* C3: on a non-empty heap remove(0) returns an element that no element of
\* the heap dominates (the minimum under MinOrder, the maximum under MaxOrder).
C3_RootDominance ==
    (op = "remove" /\ arg = 0 /\ Len(pre) >= 1) =>
        /\ Completed
        /\ Len(ret) = 1
        /\ Undominated(ret[1], pre, order)

\* C3 witness: remove(0) on a heap of at least three elements, with equal
\* ranks and more than one rank, where the replacement had to be sifted down.
C3_Witness ==
    /\ op = "remove" /\ arg = 0 /\ Completed
    /\ Len(pre) >= 3
    /\ HasEqualPair(pre)
    /\ \E k \in DOMAIN pre : pre[k] # ret[1]
    /\ data # swap_remove(pre, 0)

\* C4: a run of remove(0) calls with no other mutation yields its values in
\* non-decreasing order under MinOrder and non-increasing order under
\* MaxOrder; the values extracted and the values left are together the
\* multiset the run began with, so a run that empties the heap has yielded
\* every value exactly once.
C4_ExtractInOrder ==
    /\ InExtractOrder(out, order)
    /\ SameMultiset(out \o data, src)
    /\ (out # <<>> /\ data = <<>>) => SameMultiset(out, src)

\* C4 witness: a run emptied a heap of at least four values with duplicates
\* and with more than one rank.
C4_Witness ==
    /\ data = <<>> /\ Len(out) >= 4 /\ Len(out) = Len(src)
    /\ HasEqualPair(out)
    /\ out[1] # out[Len(out)]

\* C5: the array of the heap from_vec_and_cmp returns satisfies the heap
\* property for every input (empty, length 1, equal ranks), so no element
\* dominates the element at index 0.
C5_BulkConstructionValid ==
    op = "from_vec" =>
        /\ NoChildDominates(data, order)
        /\ data # <<>> => Undominated(data[1], data, order)

\* C5 witness: bulk construction rearranged an input of at least four
\* elements with equal-ranked elements.
C5_Witness ==
    /\ op = "from_vec" /\ Len(pre) >= 4
    /\ HasEqualPair(pre)
    /\ ~NoChildDominates(pre, order)
    /\ data # pre

\* C6: from_vec_and_cmp(v, order).to_values() is a permutation of v.
C6_MultisetPreserved ==
    op = "from_vec" => SameMultiset(to_values(data), pre)

\* C6 witness: bulk construction moved elements of an input with duplicates.
C6_Witness ==
    /\ op = "from_vec" /\ Len(pre) = MaxLen
    /\ HasEqualPair(pre)
    /\ to_values(data) # pre

\* C7: is_heap(values(), order()) returns true after every insert and every
\* completed removal, duplicates allowed.
C7_IsHeapClosure ==
    (op \in {"insert", "remove"} /\ Completed) => is_heap(data, order)

\* C8: try_from_heap_and_cmp returns None whenever some child dominates its
\* parent; a heap it returns has the heap property and the input's array.
C8_CheckedSound ==
    op = "try_from" =>
        /\ ~NoChildDominates(pre, order) => checked = <<>>
        /\ checked # <<>> => (NoChildDominates(checked[1], order) /\ checked[1] = pre)

\* C9: try_from_heap_and_cmp returns a heap for every sequence in which no
\* child dominates its parent, a child equal in rank to its parent included.
C9_CheckedAcceptsEqualRank ==
    (op = "try_from" /\ NoChildDominates(pre, order)) => checked # <<>>

\* C10: remove(index) with index >= len panics without returning a value and
\* leaves the array as it was, the empty heap included.
C10_OutOfRangeRemove ==
    (op = "remove" /\ arg >= Len(pre)) =>
        /\ outcome = "panic"
        /\ ret = <<>>
        /\ data = pre

\* C10 witness: an out-of-range removal on a heap of at least two elements.
C10_Witness ==
    /\ op = "remove" /\ arg > Len(pre) /\ Len(pre) >= 2
    /\ outcome = "panic"

\* C11: remove(len-1) on a heap with len >= 2 completes without any repair,
\* returns the former last element and leaves indices 0..len-2 as they were;
\* for len = 1, remove(0) returns the only element and leaves the heap empty.
C11_RemoveLastNoRepair ==
    (op = "remove" /\ Len(pre) >= 1 /\ arg = Len(pre) - 1) =>
        /\ Completed
        /\ ret = <<pre[Len(pre)]>>
        /\ data = SubSeq(pre, 1, Len(pre) - 1)

Distinct(s) == ~HasEqualPair(s)

\* The last call is the insert(v) of a pair v = remove(i); insert(v).
RoundTrip == op = "insert" /\ rt # NoRoundTrip

\* C12 (as claimed): on a valid heap of five distinct values, for every
\* interior index 0 < i < len, executing v = remove(i) followed by insert(v)
\* leaves the array identical, position by position, to the array before
\* the removal.
C12_RoundTripIdentical ==
    (RoundTrip /\ Len(rt[1]) = 5 /\ Distinct(rt[1]) /\ 0 < rt[2] /\ rt[2] < Len(rt[1]))
        => data = rt[1]

\* C12 (amended): on a valid heap of five distinct values, for every
\* interior index 0 < i < len-1, v = remove(i) completes and returns the
\* element of index i, and the insert(v) that follows leaves an array that
\* is a permutation of the array before the removal, satisfies the heap
\* property and has the same element at index 0.
C12_RoundTripPermutation ==
    /\ (op = "remove" /\ Len(pre) = 5 /\ Distinct(pre) /\ 0 < arg /\ arg < Len(pre) - 1)
          => (Completed /\ ret = <<pre[arg + 1]>>)
    /\ (RoundTrip /\ Len(rt[1]) = 5 /\ Distinct(rt[1]) /\ 0 < rt[2])
          => /\ rt[2] < Len(rt[1]) - 1
             /\ SameMultiset(data, rt[1])
             /\ NoChildDominates(data, order)
             /\ data[1] = rt[1][1]

\* C12 witness: a remove-then-reinsert pair at an interior index of a heap of
\* five distinct values that ends with a different array.
C12_Witness ==
    /\ RoundTrip /\ Len(rt[1]) = 5 /\ Distinct(rt[1]) /\ 0 < rt[2]
    /\ data # rt[1]

\* Sift-up as section 4.3 of the specification words it: swap the element
\* with its parent while it dominates that parent.
RECURSIVE SiftUpWhileDominates(_, _, _)
SiftUpWhileDominates(d, pos, o) ==
    IF pos > 0 /\ left_can_go_above(o, d[pos + 1], d[parent(pos) + 1])
    THEN SiftUpWhileDominates(
             [d EXCEPT ![pos + 1] = d[parent(pos) + 1], ![parent(pos) + 1] = d[pos + 1]],
             parent(pos), o)
    ELSE d

\* C13: insert(value) appends value and swaps it with its parent only while
\* it dominates that parent; a value equal in rank to its parent is not
\* swapped, and every element stored before keeps its index.
C13_InsertSwapsOnlyOnDominance ==
    op = "insert" =>
        /\ data = SiftUpWhileDominates(Append(pre, arg), Len(pre), order)
        /\ (pre # <<>> /\ ~left_can_go_above(order, arg, pre[parent(Len(pre)) + 1]))
              => data = Append(pre, arg)

\* A completed remove(index) that moved the former last element into index.
Replaced == op = "remove" /\ Completed /\ arg < Len(pre) - 1

EqualRank(x, y, o) == ~left_can_go_above(o, x, y) /\ ~left_can_go_above(o, y, x)

\* C14: in remove(index), when the former last element moved into index
\* neither dominates nor is dominated by the removed value, no swap follows
\* (every other element keeps its index) and the array satisfies the heap
\* property; otherwise exactly one of sift-up and sift-down runs.
C14_EqualRankNoRepair ==
    Replaced =>
        LET d == swap_remove(pre, arg)
            r == d[arg + 1]
            x == pre[arg + 1]
        IN  /\ EqualRank(r, x, order) => (data = d /\ NoChildDominates(data, order))
            /\ left_can_go_above(order, r, x) => data = heapify_up(d, arg, order)
            /\ left_can_go_above(order, x, r) => data = heapify_down(d, arg, order)

\* C14 witness: an interior removal whose replacement is another element of
\* the removed value's rank, below a parent of that rank as well.
C14_Witness ==
    /\ Replaced /\ arg > 0 /\ Len(pre) >= 4
    /\ data[arg + 1] # pre[arg + 1]
    /\ EqualRank(data[arg + 1], pre[arg + 1], order)
    /\ EqualRank(data[arg + 1], data[parent(arg) + 1], order)
    /\ data[arg + 1] # data[parent(arg) + 1]
    /\ data = swap_remove(pre, arg)

\* C15: there are reachable heaps and interior indices where, after the
\* swap-with-last step of remove(index), the replacement dominates its new
\* parent; there sift-down alone leaves a child dominating its parent, and
\* the code sifts up and restores the heap property.
C15_SiftUpRequired ==
    (Replaced /\ arg > 0) =>
        LET d == swap_remove(pre, arg)
        IN  left_can_go_above(order, d[arg + 1], d[parent(arg) + 1]) =>
                /\ ~NoChildDominates(heapify_down(d, arg, order), order)
                /\ data = heapify_up(d, arg, order)
                /\ NoChildDominates(data, order)

\* C15 witness: an interior removal on a valid heap whose replacement
\* dominated its new parent and was sifted up.
C15_Witness ==
    /\ Replaced /\ arg > 0
    /\ NoChildDominates(pre, order)
    /\ LET d == swap_remove(pre, arg)
       IN  /\ left_can_go_above(order, d[arg + 1], d[parent(arg) + 1])
           /\ data # d

\* C16: on a sequence that already satisfies the heap property (equal ranks
\* allowed) from_vec_and_cmp performs no swap, so to_values() is the input,
\* position by position; bulk heapify applied to its own result changes
\* nothing.
C16_BulkHeapifyNoOpOnValid ==
    op = "from_vec" =>
        /\ NoChildDominates(pre, order) => to_values(data) = pre
        /\ from_vec_and_cmp(to_values(data), order) = data

\* C16 witness: bulk construction from a valid sequence of at least four
\* elements in which a child and its parent are distinct and equal in rank.
C16_Witness ==
    /\ op = "from_vec" /\ Len(pre) >= 4
    /\ NoChildDominates(pre, order)
    /\ \E i \in 1..(Len(pre) - 1) :
          /\ pre[i + 1] # pre[parent(i) + 1]
          /\ EqualRank(pre[i + 1], pre[parent(i) + 1], order)
    /\ \E i \in 1..(Len(pre) - 1) : ~EqualRank(pre[i + 1], pre[1], order)

\* C17: after any sequence of inserts and completed removals, the multiset
\* of values() is the initial multiset plus the values inserted minus the
\* values remove returned, and len() is the initial length plus the number
\* of inserts minus the number of completed removes.
C17_ContentConserved ==
    (op \in {"from_vec", "insert", "remove"} /\ Completed) =>
        /\ BagOfSeq(data) = ledger
        /\ Len(data) = BagSize(ledger)

\* C17 witness: a removal and an insert have both run, the insert sifted its
\* value up, and the heap holds at least four elements with duplicates.
C17_Witness ==
    /\ RoundTrip /\ Completed
    /\ Len(data) >= 4 /\ HasEqualPair(data)
    /\ data # Append(pre, arg)
    /\ BagSize(ledger) = Len(data)

RECURSIVE Sum(_)
Sum(s) == IF s = <<>> THEN 0 ELSE Head(s) + Sum(Tail(s))

\* The state part of C18, at every position of main.
C18_LoopState ==
    /\ outcome = "ok" /\ pc # "panicked"
    /\ pc = "while" => Len(data) = Len(leaves) - iter
    /\ pc = "right" =>
          /\ Len(data) = Len(leaves) - iter - 1
          /\ \A k \in DOMAIN data : left <= data[k]
    /\ pc = "insert" =>
          /\ Len(data) = Len(leaves) - iter - 2
          /\ left <= right
          /\ \A k \in DOMAIN data : right <= data[k]
    /\ (pc = "while" /\ Len(data) <= 1) =>
          (Len(data) = 1 /\ data[1] = Sum(leaves))
    /\ pc = "done" => (ret = <<Sum(leaves)>> /\ data = <<>>)

\* C18: from a MinHeap filled by extend with n >= 1 leaf nodes, the loop
\* never calls remove on an empty heap, each iteration extracts two nodes
\* with left.frequency <= right.frequency <= every frequency left in the
\* heap and shortens the heap by exactly one, and the loop ends with exactly
\* one node, whose frequency is the sum of the leaf frequencies.
C18_HuffmanLoop == []C18_LoopState /\ <>(pc = "done")

\* C18 witness: the loop has ended after merging the largest number of
\* leaves, some of them of equal frequency and some not.
C18_Witness ==
    /\ pc = "while" /\ Len(data) = 1
    /\ Len(leaves) = MaxLeaves /\ iter = MaxLeaves - 1
    /\ HasEqualPair(leaves)
    /\ \E k \in DOMAIN leaves : leaves[k] # leaves[1]
    /\ data[1] = Sum(leaves)
====
